---- MODULE Spec2Model ----
(***************************************************************************)
(* Model of the raster pipeline of src/app.py: the module-level state      *)
(* (data_list, base_raster, the raster files, static/output_raster.webp)   *)
(* and the Dash callback update_map.                                       *)
(*                                                                         *)
(* Numbers are exact rationals <<n, d>> (d > 0, lowest terms); the float   *)
(* results of 0/0 and x/0 are the pairs <<0, 0>> (NaN) and <<1, 0>> (inf), *)
(* and every comparison with NaN is false, as in numpy.  Array operations  *)
(* have their numpy meaning.  Strings with non-ASCII letters are written   *)
(* in ASCII.                                                               *)
(***************************************************************************)
EXTENDS Integers, Sequences, FiniteSets, TLC

VARIABLES data_list,        \* the catalog read from Layers/HH_layers.xlsx
          layers,           \* the raster files of Layers/, by file name
          base_raster,      \* the module-level base raster (data and bounds)
          output_file,      \* static/output_raster.webp
          clock,            \* wall-clock time, in ticks since the process started
          calls,            \* the number of update_map calls so far
          request,          \* the arguments of the last update_map call
          result,           \* what the last update_map call returned or raised
          loaded,           \* the number of load_raster calls the last call made
          saved,            \* whether the last call reached img.save
          A_data,           \* the last call's A.data after line 486
          normalized_data,  \* the last call's normalized_data after line 494
          repeated,         \* history: the last call had the arguments of the
                            \* call before it, and both wrote the image
          inflight          \* the update_map calls that the server's threads
                            \* run at the same time, and their clients

vars == <<data_list, layers, base_raster, output_file, clock, calls,
          request, result, loaded, saved, A_data, normalized_data, repeated,
          inflight>>

(* ------------------------------ bounds --------------------------------- *)
Rows == 2
Cols == 2
MaxSel == 2
MaxClock == 3
TicksPerSecond == 2

(* ---------------------------- rationals -------------------------------- *)
Abs(i) == IF i < 0 THEN -i ELSE i

RECURSIVE GCD(_, _)
GCD(a, b) == IF b = 0 THEN a ELSE GCD(b, a % b)

Sign(i) == IF i < 0 THEN -1 ELSE IF i > 0 THEN 1 ELSE 0

Rat(n, d) ==
    IF d = 0 THEN <<Sign(n), 0>>
    ELSE LET g == GCD(Abs(n), Abs(d))
             s == IF d < 0 THEN -1 ELSE 1
         IN  <<(s * n) \div g, (s * d) \div g>>

Zero == <<0, 1>>
NaN == <<0, 0>>
IsNaN(a) == a = NaN
Int2Rat(i) == <<i, 1>>

RatAdd(a, b) == Rat(a[1] * b[2] + b[1] * a[2], a[2] * b[2])
RatSub(a, b) == Rat(a[1] * b[2] - b[1] * a[2], a[2] * b[2])
RatMul(a, b) == Rat(a[1] * b[1], a[2] * b[2])
RatDiv(a, b) == Rat(a[1] * b[2], a[2] * b[1])
RatLess(a, b) == /\ ~IsNaN(a)
                 /\ ~IsNaN(b)
                 /\ a[1] * b[2] < b[1] * a[2]
RatLeq(a, b) == /\ ~IsNaN(a)
                /\ ~IsNaN(b)
                /\ a[1] * b[2] <= b[1] * a[2]

(* ------------------------------ grids ---------------------------------- *)
RowIdx == 0 .. Rows - 1
ColIdx == 0 .. Cols - 1
Pixels == RowIdx \X ColIdx

SetMin(S) == CHOOSE x \in S : \A y \in S : x <= y
SetMax(S) == CHOOSE x \in S : \A y \in S : y <= x

(* ------------------- the files the process starts from ----------------- *)
\* Layers/HH_layers.xlsx: one row per factor (columns Name, Layer, Comment).
CatalogRows ==
    << [Name |-> "A", Layer |-> "a.tif", Comment |-> "ca"],
       [Name |-> "B", Layer |-> "b.tif", Comment |-> "cb"] >>

\* The names the two dropdowns can send: the catalog's names, and one name
\* the catalog does not hold.
FactorNames == {"A", "B", "X"}

\* Layers/a.tif, Layers/b.tif: single-band grids on the base raster's grid.
LayerA(p) ==
    IF p[1] = Rows - 1 /\ p[2] = Cols - 1 THEN 4
    ELSE IF p[2] = Cols - 1 THEN 2
    ELSE IF p[1] = Rows - 1 THEN 1
    ELSE 0

LayerB(p) ==
    IF p[1] = 0 /\ p[2] = 0 THEN 3
    ELSE IF p[1] = 0 THEN -1
    ELSE 0

\* Layers/10301.tif as stored: an elevation grid, in one variant with a
\* negative (nodata) pixel.  Its geographic bounds are (west, south, east,
\* north) in degrees.
BaseFileData ==
    { [p \in Pixels |-> Int2Rat(3)],
      [p \in Pixels |-> Int2Rat(IF p = <<0, 0>> THEN -1 ELSE 3)],
      [p \in Pixels |-> Int2Rat(IF p = <<Rows - 1, Cols - 1>> THEN -2 ELSE 0)] }

BaseFileBounds == << <<2477, 100>>, <<5691, 100>>, <<2619, 100>>, <<5751, 100>> >>

\* The directory Layers/ with one of the base files.
LayerFiles(base_data) ==
    [f \in {"a.tif", "b.tif", "10301.tif"} |->
        IF f = "10301.tif" THEN base_data
        ELSE [p \in Pixels |-> Int2Rat(IF f = "a.tif" THEN LayerA(p) ELSE LayerB(p))]]

(* ------------------------- module-level code --------------------------- *)
load_raster(file_path) == layers[file_path]

\* base_raster.data[base_raster.data >= 0] = 0
ZeroNonNegative(grid) ==
    [p \in Pixels |-> IF RatLeq(Zero, grid[p]) THEN Zero ELSE grid[p]]

\* Python values of a multi-select dropdown: None, or a list of names.
None == [null |-> TRUE, items |-> <<>>]
List(s) == [null |-> FALSE, items |-> s]
Truthy(v) == ~v.null /\ v.items # <<>>

(* ----------------------------- update_map ------------------------------ *)
\* data_list.<column>[data_list.Name == factor].values
CatalogMatches(factor) == SelectSeq(data_list, LAMBDA e : e.Name = factor)
InCatalog(factor) == CatalogMatches(factor) # <<>>
LayerOf(factor) == CatalogMatches(factor)[1].Layer
CommentOf_LayerColumn(factor) == CatalogMatches(factor)[1].Layer
CommentOf(factor) == CatalogMatches(factor)[1].Comment

\* A guard that tests for None instead of for an empty selection.
NoSelection_IsNone(pos_factors, neg_factors) ==
    pos_factors.null /\ neg_factors.null

\* if not pos_factors and not neg_factors
NoSelection(pos_factors, neg_factors) ==
    ~Truthy(pos_factors) /\ ~Truthy(neg_factors)

DefaultResult(transparency) ==
    [kind |-> "ok",
     url |-> <<>>,
     bounds |-> << << <<56, 1>>, <<24, 1>> >>, << <<58, 1>>, <<26, 1>> >> >>,
     opacity |-> transparency,
     description |-> <<"No factors selected.">>]

\* A loop body that skips a name the catalog does not hold.
AddFactor_Skip(acc, factor, sign) ==
    IF ~InCatalog(factor) THEN acc
    ELSE LET B == load_raster(LayerOf(factor))
         IN  [A |-> [p \in Pixels |->
                        IF sign = 1 THEN RatAdd(acc.A[p], B[p])
                        ELSE RatSub(acc.A[p], B[p])],
              n |-> acc.n + 1,
              raised |-> FALSE]

\* One pass of a loop body (lines 472-475, 479-482): the lookup raises
\* IndexError for a name the catalog does not hold, and ends the call.
AddFactor(acc, factor, sign) ==
    IF acc.raised THEN acc
    ELSE IF ~InCatalog(factor) THEN [acc EXCEPT !.raised = TRUE]
    ELSE LET B == load_raster(LayerOf(factor))
         IN  [A |-> [p \in Pixels |->
                        IF sign = 1 THEN RatAdd(acc.A[p], B[p])
                        ELSE RatSub(acc.A[p], B[p])],
              n |-> acc.n + 1,
              raised |-> FALSE]

RECURSIVE Accumulate(_, _, _)
Accumulate(acc, factors, sign) ==
    IF factors = <<>> THEN acc
    ELSE Accumulate(AddFactor(acc, Head(factors), sign), Tail(factors), sign)

\* A = base_raster.copy(); n = 0; the two loops, each under its "if".
Summed(pos_factors, neg_factors) ==
    LET start == [A |-> base_raster.data, n |-> 0, raised |-> FALSE]
        after_pos == IF Truthy(pos_factors)
                     THEN Accumulate(start, pos_factors.items, 1)
                     ELSE start
    IN  IF Truthy(neg_factors)
        THEN Accumulate(after_pos, neg_factors.items, -1)
        ELSE after_pos

\* The sum left undivided.
Averaged_NoDivide(A, n) == A

\* if n > 0: A.data /= n
Averaged(A, n) ==
    IF n > 0 THEN [p \in Pixels |-> RatDiv(A[p], Int2Rat(n))] ELSE A

\* A.data[A.data < 0] = 0
MaskNegative(A) == [p \in Pixels |-> IF RatLess(A[p], Zero) THEN Zero ELSE A[p]]

\* A.data.max()
GridMax(A) == CHOOSE m \in {A[p] : p \in Pixels} : \A q \in Pixels : RatLeq(A[q], m)

\* normalized_data = A.data / A_max
Normalize(A) == LET A_max == GridMax(A) IN [p \in Pixels |-> RatDiv(A[p], A_max)]

\* threshold = data_threshold / 100.0
Threshold(data_threshold) == RatDiv(Int2Rat(data_threshold), Int2Rat(100))

\* A threshold that also removes the values equal to it.
BelowThreshold_Inclusive(v, threshold) == RatLeq(v, threshold)

\* normalized_data[normalized_data < threshold] = 0
BelowThreshold(v, threshold) == RatLess(v, threshold)

ApplyThreshold(normalized, data_threshold) ==
    [p \in Pixels |->
        IF BelowThreshold(normalized[p], Threshold(data_threshold)) THEN Zero
        ELSE normalized[p]]

\* colormap = plt.get_cmap("jet"); colormap(v): the row of the 256-entry
\* lookup table that v selects (-1: the "bad" entry for NaN, which is RGBA
\* (0, 0, 0, 0)).
LutIndex(v) ==
    IF IsNaN(v) THEN -1
    ELSE IF (v[1] * 256) \div v[2] >= 256 THEN 255
    ELSE (v[1] * 256) \div v[2]

\* (normalized_data > 0).astype(float)
Significant(v) == RatLess(Zero, v)

\* A_rgba, as the bytes (A_rgba * 255).astype(np.uint8): the lookup-table row
\* that gives the colour bytes, and the alpha byte.
Rgba(normalized) ==
    [p \in Pixels |-> [lut |-> LutIndex(normalized[p]),
                       alpha |-> IF Significant(normalized[p]) THEN 255 ELSE 0]]

\* np.argwhere(normalized_data > 0)
nonzero_indices(normalized) == {p \in Pixels : Significant(normalized[p])}

min_row(nz) == SetMin({p[1] : p \in nz})
max_row(nz) == SetMax({p[1] : p \in nz})
min_col(nz) == SetMin({p[2] : p \in nz})
max_col(nz) == SetMax({p[2] : p \in nz})

\* A_rgba[min_row:max_row+1, min_col:max_col+1]
Slice(A_rgba, r0, r1, c0, c1) ==
    [q \in (0 .. r1 - r0 - 1) \X (0 .. c1 - c0 - 1) |-> A_rgba[<<q[1] + r0, q[2] + c0>>]]

A_cropped(normalized) ==
    LET nz == nonzero_indices(normalized)
    IN  IF nz # {}
        THEN Slice(Rgba(normalized), min_row(nz), max_row(nz) + 1,
                   min_col(nz), max_col(nz) + 1)
        ELSE Slice(Rgba(normalized), 0, Rows, 0, Cols)

\* The cropped bounds without the "+ 1" of the far edges.
CropBounds_NoPlusOne(bounds, r0, r1, c0, c1) ==
    LET pixel_width == RatDiv(RatSub(bounds[3], bounds[1]), Int2Rat(Cols))
        pixel_height == RatDiv(RatSub(bounds[4], bounds[2]), Int2Rat(Rows))
    IN  << << RatSub(bounds[4], RatMul(Int2Rat(r1), pixel_height)),
              RatAdd(bounds[1], RatMul(Int2Rat(c0), pixel_width)) >>,
           << RatSub(bounds[4], RatMul(Int2Rat(r0), pixel_height)),
              RatAdd(bounds[1], RatMul(Int2Rat(c1), pixel_width)) >> >>

\* The cropped bounds of lines 511-519.
CropBounds(bounds, r0, r1, c0, c1) ==
    LET pixel_width == RatDiv(RatSub(bounds[3], bounds[1]), Int2Rat(Cols))
        pixel_height == RatDiv(RatSub(bounds[4], bounds[2]), Int2Rat(Rows))
    IN  << << RatSub(bounds[4], RatMul(Int2Rat(r1 + 1), pixel_height)),
              RatAdd(bounds[1], RatMul(Int2Rat(c0), pixel_width)) >>,
           << RatSub(bounds[4], RatMul(Int2Rat(r0), pixel_height)),
              RatAdd(bounds[1], RatMul(Int2Rat(c1 + 1), pixel_width)) >> >>

\* The fallback bounds of lines 522-526.
FallbackBounds(bounds) == << <<bounds[4], bounds[1]>>, <<bounds[2], bounds[3]>> >>

cropped_bounds(normalized) ==
    LET nz == nonzero_indices(normalized)
    IN  IF nz # {}
        THEN CropBounds(base_raster.bounds, min_row(nz), max_row(nz),
                        min_col(nz), max_col(nz))
        ELSE FallbackBounds(base_raster.bounds)

\* datetime.now().strftime("%Y%m%d%H%M%S"): the time cut to whole seconds.
Timestamp(now) == now \div TicksPerSecond

image_url(now) == <<"/static/output_raster.webp?t=", Timestamp(now)>>

\* The strings the code appends to description, one element per string.
RECURSIVE FactorLines(_)
FactorLines(factors) ==
    IF factors = <<>> THEN <<>>
    ELSE <<"***- ", Head(factors), "***  \n", CommentOf(Head(factors)), "  \n">>
         \o FactorLines(Tail(factors))

PosHeader == "**Pozitivie faktori ar koeficienta vertibu +1:**  \n"
NegHeader == "  \n**Negativie faktori ar koeficienta vertibu -1:**  \n"
PosPlaceholder == "- Nav izvelets neviens  \n"
NegPlaceholder == "- Nav izvelets neviens"

PosSection(pos_factors) ==
    IF Truthy(pos_factors) THEN FactorLines(pos_factors.items) ELSE <<PosPlaceholder>>

NegSection(neg_factors) ==
    IF Truthy(neg_factors) THEN FactorLines(neg_factors.items) ELSE <<NegPlaceholder>>

description(pos_factors, neg_factors) ==
    <<PosHeader>> \o PosSection(pos_factors)
        \o <<NegHeader>> \o NegSection(neg_factors)

\* Lines 543 and 551 look each name up again.
DescriptionRaises(pos_factors, neg_factors) ==
    \E i \in 1 .. Len(pos_factors.items \o neg_factors.items) :
        ~InCatalog((pos_factors.items \o neg_factors.items)[i])

\* The callback raises IndexError: Dash answers the request with an error.
ErrorResult ==
    [kind |-> "error", url |-> <<>>, bounds |-> <<>>, opacity |-> Zero,
     description |-> <<"IndexError">>]

PipelineResult(normalized, pos_factors, neg_factors, transparency) ==
    [kind |-> "ok",
     url |-> image_url(clock),
     bounds |-> cropped_bounds(normalized),
     opacity |-> transparency,
     description |-> description(pos_factors, neg_factors)]

\* A = base_raster without the copy: the accumulator is the base raster.
BaseAfter_Alias(base, A) == A

\* What base_raster holds after the pipeline ran on the accumulator A.
BaseAfter(base, A) == base

(* ------------------------------ inputs --------------------------------- *)
RECURSIVE SeqsUpTo(_, _)
SeqsUpTo(S, k) ==
    IF k = 0 THEN {<<>>}
    ELSE LET shorter == SeqsUpTo(S, k - 1)
         IN  shorter \cup {Append(s, x) : s \in shorter, x \in S}

IsInjective(s) == \A i, j \in 1 .. Len(s) : i # j => s[i] # s[j]

\* A multi-select dropdown sends None or a list of distinct names.
Selections ==
    {None} \cup {List(s) : s \in {t \in SeqsUpTo(FactorNames, MaxSel) : IsInjective(t)}}

Transparencies == {<<0, 1>>, <<1, 2>>, <<1, 1>>}
Thresholds == {0, 25, 50, 75, 100}

\* The requests of the runs that follow several requests in sequence.
SeqPos == {None, List(<<"A">>), List(<<"B", "A">>)}
SeqNeg == {List(<<>>), List(<<"A">>), List(<<"X">>)}
SeqTransparencies == {<<1, 2>>}
SeqThresholds == {50, 100}

(* --------------------------- specification ----------------------------- *)
NoFile == [exists |-> FALSE, image |-> <<>>]

\* An image an earlier run of the process left in static/.
LeftoverFile ==
    [exists |-> TRUE, image |-> [q \in {<<0, 0>>} |-> [lut |-> 7, alpha |-> 255]]]
Unset == <<>>

NoRequest == [pos_factors |-> None, neg_factors |-> None,
              transparency |-> Zero, data_threshold |-> 0]

\* The threads of the server that app.run_server starts: each runs one
\* update_map call for one client.
Handlers == {"h1", "h2"}

\* A thread that has not been given its request yet.
NotCalled ==
    [pc |-> "idle", request |-> NoRequest, overlapped |-> FALSE,
     normalized_data |-> Unset, img |-> <<>>, result |-> <<>>, shown |-> <<>>]

Init ==
    /\ data_list = CatalogRows
    /\ layers \in {LayerFiles(base_data) : base_data \in BaseFileData}
    /\ base_raster = [data |-> ZeroNonNegative(load_raster("10301.tif")),
                      bounds |-> BaseFileBounds]
    /\ output_file \in {NoFile, LeftoverFile}
    /\ clock = 0
    /\ calls = 0
    /\ request = NoRequest
    /\ result = [kind |-> "none", url |-> <<>>, bounds |-> <<>>, opacity |-> Zero,
                 description |-> <<>>]
    /\ loaded = 0
    /\ saved = FALSE
    /\ A_data = Unset
    /\ normalized_data = Unset
    /\ repeated = FALSE
    /\ inflight = [h \in Handlers |-> NotCalled]

update_map(pos_factors, neg_factors, transparency, data_threshold) ==
    /\ clock < MaxClock
    /\ clock' = clock + 1
    /\ calls' = calls + 1
    /\ request' = [pos_factors |-> pos_factors, neg_factors |-> neg_factors,
                   transparency |-> transparency, data_threshold |-> data_threshold]
    /\ UNCHANGED <<data_list, layers, inflight>>
    /\ IF NoSelection(pos_factors, neg_factors)
       THEN /\ result' = DefaultResult(transparency)
            /\ loaded' = 0
            /\ saved' = FALSE
            /\ A_data' = Unset
            /\ normalized_data' = Unset
            /\ UNCHANGED <<base_raster, output_file>>
       ELSE LET acc == Summed(pos_factors, neg_factors)
            IN  IF acc.raised
                THEN /\ result' = ErrorResult
                     /\ loaded' = acc.n
                     /\ saved' = FALSE
                     /\ A_data' = Unset
                     /\ normalized_data' = Unset
                     /\ UNCHANGED <<base_raster, output_file>>
                ELSE LET A == MaskNegative(Averaged(acc.A, acc.n))
                         normalized == ApplyThreshold(Normalize(A), data_threshold)
                     IN  /\ A_data' = A
                         /\ normalized_data' = normalized
                         /\ loaded' = acc.n
                         /\ saved' = TRUE
                         /\ output_file' =
                               [exists |-> TRUE, image |-> A_cropped(normalized)]
                         /\ base_raster' =
                               [base_raster EXCEPT
                                   !.data = BaseAfter(base_raster.data, A)]
                         /\ result' =
                               IF DescriptionRaises(pos_factors, neg_factors)
                               THEN ErrorResult
                               ELSE PipelineResult(normalized, pos_factors,
                                                   neg_factors, transparency)
    /\ repeated' = (saved /\ saved' /\ request' = request)

\* One request, with any arguments, to the freshly started process.
FirstRequest ==
    \E pos_factors \in Selections, neg_factors \in Selections,
       transparency \in Transparencies, data_threshold \in Thresholds :
       /\ calls = 0
       /\ update_map(pos_factors, neg_factors, transparency, data_threshold)

\* One request of a sequence of requests.
Request ==
    \E pos_factors \in SeqPos, neg_factors \in SeqNeg,
       transparency \in SeqTransparencies, data_threshold \in SeqThresholds :
       update_map(pos_factors, neg_factors, transparency, data_threshold)

\* Time passes between two requests.
Tick ==
    /\ clock < MaxClock
    /\ clock' = clock + 1
    /\ UNCHANGED <<data_list, layers, base_raster, output_file, calls, request,
                   result, loaded, saved, A_data, normalized_data, repeated,
                   inflight>>

Next == Request \/ Tick

Spec == Init /\ [][Next]_vars

SpecFirst == Init /\ [][FirstRequest]_vars

(* ----------------- update_map calls that run concurrently --------------- *)
\* The threads that are inside update_map.
Running == {g \in Handlers : inflight[g].pc \in {"save", "stamp"}}

\* Lines 463-526 in thread h: the thread computes its image from the shared
\* rasters, which it only reads.  A call that starts while another thread is
\* inside update_map overlaps it.
Compute(h, pos_factors, neg_factors, transparency, data_threshold) ==
    LET req == [pos_factors |-> pos_factors, neg_factors |-> neg_factors,
                transparency |-> transparency, data_threshold |-> data_threshold]
        others == Running \ {h}
        mark == [g \in Handlers |->
                    IF g \in others
                    THEN [inflight[g] EXCEPT !.overlapped = TRUE]
                    ELSE inflight[g]]
        mine == [inflight[h] EXCEPT !.request = req, !.overlapped = others # {}]
    IN  /\ inflight[h].pc = "idle"
        /\ IF NoSelection(pos_factors, neg_factors)
           THEN /\ inflight' = [mark EXCEPT ![h] =
                                   [mine EXCEPT !.pc = "returned",
                                                !.overlapped = FALSE,
                                                !.result = DefaultResult(transparency)]]
                /\ UNCHANGED base_raster
           ELSE LET acc == Summed(pos_factors, neg_factors)
                IN  IF acc.raised
                    THEN /\ inflight' = [mark EXCEPT ![h] =
                                            [mine EXCEPT !.pc = "raised",
                                                         !.result = ErrorResult]]
                         /\ UNCHANGED base_raster
                    ELSE LET A == MaskNegative(Averaged(acc.A, acc.n))
                             normalized ==
                                 ApplyThreshold(Normalize(A), data_threshold)
                         IN  /\ inflight' = [mark EXCEPT ![h] =
                                                [mine EXCEPT
                                                    !.pc = "save",
                                                    !.normalized_data = normalized,
                                                    !.img = A_cropped(normalized)]]
                             /\ base_raster' =
                                   [base_raster EXCEPT
                                       !.data = BaseAfter(base_raster.data, A)]
        /\ UNCHANGED <<data_list, layers, output_file, clock, calls, request,
                       result, loaded, saved, A_data, normalized_data, repeated>>

\* Lines 529-532 in thread h: img.save to static/output_raster.webp.
Save(h) ==
    /\ inflight[h].pc = "save"
    /\ output_file' = [exists |-> TRUE, image |-> inflight[h].img]
    /\ inflight' = [inflight EXCEPT ![h].pc = "stamp"]
    /\ UNCHANGED <<data_list, layers, base_raster, clock, calls, request, result,
                   loaded, saved, A_data, normalized_data, repeated>>

\* Lines 535-558 in thread h: the URL, the description and the return.
Return(h) ==
    LET req == inflight[h].request
    IN  /\ inflight[h].pc = "stamp"
        /\ inflight' =
              [inflight EXCEPT ![h] =
                  IF DescriptionRaises(req.pos_factors, req.neg_factors)
                  THEN [@ EXCEPT !.pc = "raised", !.result = ErrorResult]
                  ELSE [@ EXCEPT !.pc = "returned",
                                 !.result = PipelineResult(inflight[h].normalized_data,
                                                           req.pos_factors,
                                                           req.neg_factors,
                                                           req.transparency)]]
        /\ UNCHANGED <<data_list, layers, base_raster, output_file, clock, calls,
                       request, result, loaded, saved, A_data, normalized_data,
                       repeated>>

\* The client of thread h sets the overlay's url to the URL it was returned,
\* and its browser fetches the file the URL names.
Fetch(h) ==
    /\ inflight[h].pc = "returned"
    /\ inflight[h].result.url # <<>>
    /\ output_file.exists
    /\ inflight' = [inflight EXCEPT ![h].pc = "shown",
                                    ![h].shown = output_file.image]
    /\ UNCHANGED <<data_list, layers, base_raster, output_file, clock, calls,
                   request, result, loaded, saved, A_data, normalized_data,
                   repeated>>

Called(h) ==
    \E pos_factors \in SeqPos, neg_factors \in SeqNeg,
       transparency \in SeqTransparencies, data_threshold \in SeqThresholds :
       Compute(h, pos_factors, neg_factors, transparency, data_threshold)

NextConcurrent ==
    \E h \in Handlers : Called(h) \/ Save(h) \/ Return(h) \/ Fetch(h)

SpecConcurrent == Init /\ [][NextConcurrent]_vars

(* ------------------------------- claims -------------------------------- *)
\* What the claims say of the last request.
EmptySelection(v) == v.null \/ Len(v.items) = 0
BothEmpty(req) == EmptySelection(req.pos_factors) /\ EmptySelection(req.neg_factors)
Returned == result.kind = "ok"
Raised == result.kind = "error"
West == base_raster.bounds[1]
South == base_raster.bounds[2]
East == base_raster.bounds[3]
North == base_raster.bounds[4]

\* C1: a call whose positive and negative selections are both empty (an
\* empty list or None) returns exactly ("", [[56.0, 24.0], [58.0, 26.0]], the
\* transparency it was given, "No factors selected."), loads no raster, and
\* leaves the base raster and the output image file as they were.
C1_NoSelectionBypass ==
    [][(calls' # calls /\ BothEmpty(request'))
        => /\ result'.kind = "ok"
           /\ result'.url = <<>>
           /\ result'.bounds = << << <<56, 1>>, <<24, 1>> >>, << <<58, 1>>, <<26, 1>> >> >>
           /\ result'.opacity = request'.transparency
           /\ result'.description = <<"No factors selected.">>
           /\ loaded' = 0
           /\ ~saved'
           /\ base_raster' = base_raster
           /\ output_file' = output_file]_vars

\* An empty list and a missing selection were answered, with a transparency
\* and a threshold that are not the defaults, while an image is on disk.
C1_Witness ==
    /\ BothEmpty(request)
    /\ Returned
    /\ calls = 1
    /\ request.pos_factors = List(<<>>)
    /\ request.neg_factors = None
    /\ request.transparency = <<1, 2>>
    /\ request.data_threshold = 75
    /\ output_file.exists

\* The pixels the last call's thresholded grid marks significant.
SignificantPixels == {p \in Pixels : RatLess(Zero, normalized_data[p])}
ImagePixels == DOMAIN output_file.image

\* C2: when the composite of a non-empty selection is zero at every pixel, the
\* call divides nothing by zero and returns: the normalized grid is the
\* all-zero grid, every pixel of the image has alpha 0, and the bounds span
\* the whole extent of the base raster.
C2_DegenerateAllZero ==
    (Returned /\ saved /\ \A p \in Pixels : A_data[p] = Zero)
        => /\ \A p \in Pixels : normalized_data[p] = Zero
           /\ \A q \in ImagePixels : output_file.image[q].alpha = 0
           /\ {result.bounds[1][1], result.bounds[2][1]} = {South, North}
           /\ {result.bounds[1][2], result.bounds[2][2]} = {West, East}

\* C3: the bounds a call returns after the colorize/crop step are
\* [[south, west], [north, east]]: the first corner's latitude and longitude
\* are at most the second corner's.
C3_BoundsSouthWestFirst ==
    (Returned /\ saved)
        => /\ RatLeq(result.bounds[1][1], result.bounds[2][1])
           /\ RatLeq(result.bounds[1][2], result.bounds[2][2])

CatalogRow(name) == CHOOSE e \in {data_list[i] : i \in DOMAIN data_list} : e.Name = name

RECURSIVE LayerSum(_, _)
LayerSum(names, p) ==
    IF names = <<>> THEN Zero
    ELSE RatAdd(layers[CatalogRow(Head(names)).Layer][p], LayerSum(Tail(names), p))

ClampAtZero(v) == IF RatLess(v, Zero) THEN Zero ELSE v
SelectedCount == Len(request.pos_factors.items) + Len(request.neg_factors.items)

\* C5 as claimed: whatever the base raster holds, the composite is at every
\* pixel max(0, (sum of the positive layers - sum of the negative layers) / n).
C5_AverageOfLayers ==
    (Returned /\ saved)
        => \A p \in Pixels :
              A_data[p] =
                 ClampAtZero(RatDiv(RatSub(LayerSum(request.pos_factors.items, p),
                                           LayerSum(request.neg_factors.items, p)),
                                    Int2Rat(SelectedCount)))

\* C5 (amended): the base raster keeps only its negative values at startup, and the
\* composite is at every pixel max(0, (b + sum of the positive layers - sum of
\* the negative layers) / n), b being the base raster's value at the pixel: 0
\* where the stored base file is >= 0, the stored value where it is negative.
C5_AverageOverBase ==
    /\ \A p \in Pixels :
          base_raster.data[p] =
             IF RatLess(layers["10301.tif"][p], Zero) THEN layers["10301.tif"][p]
             ELSE Zero
    /\ (Returned /\ saved)
          => \A p \in Pixels :
                A_data[p] =
                   ClampAtZero(RatDiv(
                       RatAdd(base_raster.data[p],
                              RatSub(LayerSum(request.pos_factors.items, p),
                                     LayerSum(request.neg_factors.items, p))),
                       Int2Rat(SelectedCount)))

\* Two positive factors and a negative one, over a base with a negative pixel
\* the composite stays positive at.
C5_Witness ==
    /\ Returned
    /\ saved
    /\ Len(request.pos_factors.items) = 2
    /\ Len(request.neg_factors.items) = 1
    /\ \E p \in Pixels : RatLess(base_raster.data[p], Zero) /\ RatLess(Zero, A_data[p])

\* C6: with maxValue > 0, a pixel of the image is opaque (alpha 255) exactly
\* when its composite value is positive and value/maxValue is not below
\* thresholdPercent/100, else transparent (alpha 0); every significant pixel
\* is in the image, and a value below the threshold is set to 0.
MaxValue == CHOOSE m \in {A_data[p] : p \in Pixels} : \A q \in Pixels : RatLeq(A_data[q], m)
AtOrAboveThreshold(p) ==
    /\ RatLess(Zero, A_data[p])
    /\ RatLeq(RatMul(Int2Rat(request.data_threshold), MaxValue),
              RatMul(Int2Rat(100), A_data[p]))
StrictlyBelowThreshold(p) ==
    RatLess(RatMul(Int2Rat(100), A_data[p]),
            RatMul(Int2Rat(request.data_threshold), MaxValue))
KeptPixels == {p \in Pixels : AtOrAboveThreshold(p)}
FirstKeptRow == IF KeptPixels = {} THEN 0 ELSE SetMin({p[1] : p \in KeptPixels})
FirstKeptCol == IF KeptPixels = {} THEN 0 ELSE SetMin({p[2] : p \in KeptPixels})

C6_ThresholdAlpha ==
    (Returned /\ saved /\ RatLess(Zero, MaxValue))
        => /\ \A q \in ImagePixels :
                 output_file.image[q].alpha =
                    IF AtOrAboveThreshold(<<q[1] + FirstKeptRow, q[2] + FirstKeptCol>>)
                    THEN 255 ELSE 0
           /\ \A p \in KeptPixels :
                 <<p[1] - FirstKeptRow, p[2] - FirstKeptCol>> \in ImagePixels
           /\ \A p \in Pixels :
                 StrictlyBelowThreshold(p) => normalized_data[p] = Zero

\* One pixel exactly at the threshold and one positive pixel below it.
C6_Witness ==
    /\ Returned
    /\ saved
    /\ RatLess(Zero, MaxValue)
    /\ request.data_threshold = 50
    /\ \E p \in Pixels :
          /\ RatMul(Int2Rat(100), A_data[p]) = RatMul(Int2Rat(50), MaxValue)
          /\ p \in SignificantPixels
    /\ \E p \in Pixels : RatLess(Zero, A_data[p]) /\ StrictlyBelowThreshold(p)

\* C7: a call with the arguments of the call before it, both of which wrote
\* the image, writes the same image and returns the same bounds.
C7_SameRequestSameImage ==
    [][(calls' # calls /\ saved /\ saved' /\ request' = request)
        => /\ output_file' = output_file
           /\ result'.bounds = result.bounds]_vars

\* The same request was made twice in sequence, over a base raster with a
\* negative pixel, and its image shows a significant pixel.
C7_Witness ==
    /\ repeated
    /\ Returned
    /\ Len(request.pos_factors.items) = 2
    /\ SignificantPixels # {}
    /\ \E p \in Pixels : RatLess(base_raster.data[p], Zero)

\* C8: two successive calls that each write the image return URLs that differ
\* (in their ?t= token).
C8_FreshUrlPerWrite ==
    [][(calls' # calls /\ saved /\ saved' /\ result.kind = "ok" /\ result'.kind = "ok")
        => result'.url # result.url]_vars

\* C9: the description of a non-empty selection is the positive header, the
\* positive section, the negative header and the negative section; a section
\* lists each selected name of its category, in selection order, followed by
\* the comment the catalog holds for that name, and is the placeholder line
\* alone when the category has no selection.
SectionLength(v) == IF EmptySelection(v) THEN 1 ELSE 5 * Len(v.items)

SectionListsFactors(section, v, placeholder) ==
    IF EmptySelection(v) THEN section = <<placeholder>>
    ELSE /\ Len(section) = 5 * Len(v.items)
         /\ \A i \in 1 .. Len(v.items) :
               /\ section[5 * i - 4] = "***- "
               /\ section[5 * i - 3] = v.items[i]
               /\ section[5 * i - 2] = "***  \n"
               /\ \E k \in DOMAIN data_list :
                     /\ data_list[k].Name = v.items[i]
                     /\ data_list[k].Comment = section[5 * i - 1]
               /\ section[5 * i] = "  \n"

C9_DescriptionSections ==
    (Returned /\ ~BothEmpty(request))
        => LET d == result.description
               np == SectionLength(request.pos_factors)
               nn == SectionLength(request.neg_factors)
           IN  /\ Len(d) = 2 + np + nn
               /\ d[1] = "**Pozitivie faktori ar koeficienta vertibu +1:**  \n"
               /\ SectionListsFactors(SubSeq(d, 2, 1 + np), request.pos_factors,
                                      "- Nav izvelets neviens  \n")
               /\ d[2 + np] = "  \n**Negativie faktori ar koeficienta vertibu -1:**  \n"
               /\ SectionListsFactors(SubSeq(d, 3 + np, 2 + np + nn),
                                      request.neg_factors, "- Nav izvelets neviens")

\* Two positive factors in the order B, A, and no negative factor.
C9_Witness ==
    /\ Returned
    /\ request.pos_factors.items = <<"B", "A">>
    /\ EmptySelection(request.neg_factors)
    /\ Len(result.description) = 13

\* C10: a call that selects a name the catalog does not hold ends in an error,
\* and leaves the base raster, the catalog and the output image file as they
\* were.
SelectsMissingName(req) ==
    \E i \in 1 .. Len(req.pos_factors.items \o req.neg_factors.items) :
        \A k \in DOMAIN data_list :
            data_list[k].Name # (req.pos_factors.items \o req.neg_factors.items)[i]

C10_MissingNameFailsCleanly ==
    [][(calls' # calls /\ SelectsMissingName(request'))
        => /\ result'.kind = "error"
           /\ ~saved'
           /\ base_raster' = base_raster
           /\ data_list' = data_list
           /\ output_file' = output_file]_vars

\* A request failed on a missing name after it had loaded a raster, while an
\* earlier request's image is on disk.
C10_Witness ==
    /\ Raised
    /\ SelectsMissingName(request)
    /\ loaded >= 1
    /\ output_file.exists

\* C11: when two update_map calls with different selections overlap, the
\* image a client reads at the URL its call returned is the image that call
\* computed: the other call does not overwrite it between the call's write and
\* the client's read.
DifferentSelections(r1, r2) ==
    \/ r1.pos_factors # r2.pos_factors
    \/ r1.neg_factors # r2.neg_factors

C11_ReadsOwnImage ==
    \A h \in Handlers : \A g \in Handlers \ {h} :
        (/\ inflight[h].pc = "shown"
         /\ inflight[h].overlapped
         /\ inflight[g].pc # "idle"
         /\ DifferentSelections(inflight[h].request, inflight[g].request))
            => inflight[h].shown = inflight[h].img

\* C12: after any sequence of update_map calls, failed ones included, every
\* pixel of the base raster holds the value startup left there: the stored
\* value where that is negative, and 0 elsewhere.
StartupValue(p) ==
    LET stored == layers["10301.tif"][p]
    IN  IF stored[1] < 0 THEN stored ELSE <<0, 1>>

C12_BaseRasterKept ==
    /\ DOMAIN base_raster.data = Pixels
    /\ \A p \in Pixels : base_raster.data[p] = StartupValue(p)

\* A request failed on a missing name after an earlier request had written
\* its image, over a base raster with a negative pixel.
C12_Witness ==
    /\ calls >= 2
    /\ Raised
    /\ loaded >= 1
    /\ output_file.exists
    /\ output_file # LeftoverFile
    /\ \E p \in Pixels : RatLess(base_raster.data[p], Zero)

====
